---- MODULE Spec2Model ----
(***************************************************************************)
(* hanashi: the entity linker (services/linker), the Qdrant vector search  *)
(* (core/vector_search) and the post-processing of retrieved documents     *)
(* (services/rag/retriever/vector_search.py) as state machines.            *)
(*                                                                         *)
(* Spec              one Linker.run call: split, batched retrieval,        *)
(*                   candidate processing, the fan-out of verification     *)
(*                   calls, the join and the verification loop.            *)
(* SpecFilters       create_filters applied to filter specifications.      *)
(* SpecQdrant        one Qdrant.batch_retrieve_documents call.             *)
(* SpecRetrieval     a Linker.run call, or a batch_retrieve_documents      *)
(*                   call on its own.                                      *)
(* SpecFilterResults filter_search_results applied to result lists.        *)
(* SpecPostProcess   post_process_documents, called once and once more     *)
(*                   with a raised score_threshold.                        *)
(* SpecMerge         merge_docuemnt_splits, applied once and to its own    *)
(*                   result.                                               *)
(* SpecGather        a Linker.run call with the order recorded in which    *)
(*                   its verification calls return.                        *)
(* SpecRetriever     VectorSearchRetriever.retrieve, called repeatedly     *)
(*                   with one RetrieveParams object.                       *)
(***************************************************************************)
EXTENDS Integers, Sequences, FiniteSets, TLC

\* ------------------------------------------------------------------ bounds

\* Longest input entity list of a Linker.run call.
MaxEntities == 2
\* Most hits the vector search returns for one query.
MaxDocs == 2
\* Longest filter specification handed to create_filters.
MaxClauses == 2
\* Most create_filters calls on one filter specification object.
MaxCompiles == 2
\* Most queries of one batch_retrieve_documents call.
MaxQueries == 2
\* Longest result list handed to the post-processing functions.
MaxResults == 3
\* Most retrieve calls made with one RetrieveParams object.
MaxRetrieves == 2

\* ------------------------------------------------------------ value sets

\* Optional[float]: {} is None, {x} is the value x.
None == {}
Some(x) == {x}
Get(opt) == CHOOSE x \in opt : TRUE

\* Python truthiness of an Optional[float]: None and 0.0 are falsy.
Truthy(opt) == opt # None /\ opt # Some(0)

\* Similarity scores and thresholds, as levels: a hit scoring 1 falls below
\* the score threshold, one scoring 2 passes it, one scoring 3 also exceeds
\* the skip threshold 2.
Scores == {1, 2, 3}
ScoreThresholds == {2}
SkipConfidences == {None, Some(0), Some(2)}

\* Entity.name is declared str; an extractor may still hand over another
\* value (the isinstance test of _retrieve_candidates is there for that).
StrName(s) == [isstr |-> TRUE, text |-> s]
NonStrName(s) == [isstr |-> FALSE, text |-> s]

\* The mentions of a text, in the order the extractor found them: persons
\* and organisations alternate.
Mentions ==
    << [type |-> "Person", text |-> "Alice"], [type |-> "Org", text |-> "Acme"],
       [type |-> "Person", text |-> "Bob"], [type |-> "Org", text |-> "Initech"] >>

\* The (type, name) values the input entity at position i takes: the i-th
\* mention with its name as a string, or with a name that is no string.
EntityValues(i) ==
    { [type |-> Mentions[i].type, name |-> StrName(Mentions[i].text)],
      [type |-> Mentions[i].type, name |-> NonStrName("42")] }

\* An input entity object: its value, and src, its position in the input list
\* (the identity of the object).
Entity(v, i) == [type |-> v.type, name |-> v.name, src |-> i]

\* LinkedEntity (class LinkedEntity): type and name copied, metadata added.
LinkedEntity(type, name, metadata, src) ==
    [type |-> type, name |-> name, metadata |-> metadata, src |-> src]

\* Linker.__init__: cross_search_types.
cross_search_types(type) == IF type = "Person" THEN <<"Alias">> ELSE <<>>

\* Linker.__init__: the entity types with a candidate_postprocess_fns entry.
candidate_postprocess_types == {"Org"}

\* The stored record of the hit at rank r for query q.
Doc(q, r) == [q |-> q, rank |-> r]

\* ScoredDocument.
ScoredDocument(document, score) == [document |-> document, score |-> score]

\* ------------------------------------------------------------ sequences

RECURSIVE SeqsUpTo(_, _)
SeqsUpTo(S, n) ==
    IF n = 0 THEN {<<>>}
    ELSE LET shorter == SeqsUpTo(S, n - 1)
         IN shorter \cup { Append(s, x) : s \in { t \in shorter : Len(t) = n - 1 }, x \in S }

\* [f(x) for x in s]
Map(s, F(_)) == [i \in DOMAIN s |-> F(s[i])]

VARIABLES
    pc,                         \* where Linker.run is
    skip_llm_check_confidence,  \* Linker.skip_llm_check_confidence
    entities,                   \* run(entities=...)
    score_threshold,            \* run(score_threshold=...)
    retrieval_calls,            \* the batch_retrieve_documents calls issued
    batch_response,             \* what batch_retrieve_documents returned
    entity_with_candidates,     \* _retrieve_candidates' first result
    linked_entities,            \* run's linked_entities
    unlinked_entities,          \* run's unlinked_entities
    calls,                      \* the llm.response calls of _link_by_llm
    linked_entities_by_llm,     \* _link_by_llm's results
    unlinked_entities_by_llm,
    error,                      \* the exception run raised, "" for none
    result,                     \* <<LinkerResponse>> once run returned
    candidate_docs,             \* _retrieve_candidates' docs of each pass of its loop
    filters,                    \* a filter specification object (None or a list)
    compiled,                   \* the create_filters calls made, in order
    qpc,                        \* where Qdrant.batch_retrieve_documents is
    queries,                    \* batch_retrieve_documents(queries=...)
    batch_filters,              \* batch_retrieve_documents(filters=...)
    query_filters,              \* batch_retrieve_documents' query_filters
    embed_calls,                \* the embedding.embed_texts calls issued
    search_calls,               \* the qdrant.search_batch calls issued
    search_response,            \* <<batch_docs>> once search_batch returned
    qresult,                    \* <<the list returned>> once the call returned
    qerror,                     \* the exception the call raised, "" for none
    scored_docs,                \* the results handed to the post-processing functions
    post_args,                  \* the other arguments of their calls
    post_calls,                 \* the calls made on scored_docs, in order
    completion_order,           \* the llm.response calls that returned, in the order they did
    rpc,                        \* where VectorSearchRetriever.retrieve is
    retriever,                  \* the VectorSearchRetriever object (self)
    params,                     \* the RetrieveParams object of the retrieve calls
    retrieve_calls              \* the retrieve calls made, in order

linkerVars ==
    << pc, skip_llm_check_confidence, entities, score_threshold, retrieval_calls,
       batch_response, entity_with_candidates, linked_entities, unlinked_entities,
       calls, linked_entities_by_llm, unlinked_entities_by_llm, error, result,
       candidate_docs >>

filterVars == << filters, compiled >>

qdrantVars ==
    << qpc, queries, batch_filters, query_filters, embed_calls, search_calls,
       search_response, qresult, qerror >>

postVars == << scored_docs, post_args, post_calls >>

searchVars == << qdrantVars, postVars >>

gatherVars == << completion_order >>

retrieverVars == << rpc, retriever, params, retrieve_calls >>

vars == << linkerVars, filterVars, searchVars, gatherVars, retrieverVars >>

\* ------------------------------------------------- the linker's functions

\* The input lists of a run: entity objects, each with its position.
RECURSIVE EntityListsOfLen(_)
EntityListsOfLen(n) ==
    IF n = 0 THEN {<<>>}
    ELSE { Append(es, Entity(v, n)) : es \in EntityListsOfLen(n - 1), v \in EntityValues(n) }

EntityLists == UNION { EntityListsOfLen(n) : n \in 0..MaxEntities }

\* The hit lists the vector search returns for query q: at most MaxDocs hits
\* in ranking order (scores do not increase), the hit at rank r carrying the
\* stored record Doc(q, r).
HitLists(q) ==
    { [r \in DOMAIN ss |-> ScoredDocument(Doc(q, r), ss[r])] :
        ss \in { t \in SeqsUpTo(Scores, MaxDocs) :
                    \A r \in 1..(Len(t) - 1) : t[r] >= t[r + 1] } }

\* Mutant of FilterSearchResults: the comparison with the threshold turned
\* round.
FilterSearchResults_AtMost(results, threshold, require_score, keep_score) ==
    LET Keep(r) ==
            \/ (~require_score /\ (r.score = 0 \/ r.score <= threshold))
            \/ (require_score /\ (r.score # 0 /\ r.score <= threshold))
        kept == SelectSeq(results, Keep)
    IN IF keep_score THEN kept ELSE Map(kept, LAMBDA r : r.document)

\* filter_search_results: `not result.score` and `result.score` are Python
\* truthiness, so a score of 0 counts as no score.
FilterSearchResults(results, threshold, require_score, keep_score) ==
    LET Keep(r) ==
            \/ (~require_score /\ (r.score = 0 \/ r.score >= threshold))
            \/ (require_score /\ (r.score # 0 /\ r.score >= threshold))
        kept == SelectSeq(results, Keep)
    IN IF keep_score THEN kept ELSE Map(kept, LAMBDA r : r.document)

\* Mutant of IsLinkable: the isinstance test left out.
IsLinkable_Always(entity) == TRUE

\* _retrieve_candidates, the split: isinstance(entity.name, str).
IsLinkable(entity) == entity.name.isstr

ToLinkEntities(es) == SelectSeq(es, IsLinkable)
NonLinkableEntities(es) == SelectSeq(es, LAMBDA e : ~IsLinkable(e))

\* _retrieve_candidates: the filter of one entity's query.
EntityFilters(entity) ==
    << [key |-> "type", any |-> <<entity.type>> \o cross_search_types(entity.type)] >>

\* What a candidate_postprocess_fns entry may return for docs: the list
\* itself, or the list without its first document.
PostprocessChoices == {"keep", "drop_first"}
ProcessFn(choice, docs) ==
    CASE choice = "keep" -> docs
      [] choice = "drop_first" -> IF docs = <<>> THEN <<>> ELSE Tail(docs)

\* The outcome of one pass of the loop over zip(to_link_entities, batch_docs):
\* what it appends to entity_with_candidates, unlinked_entities, linked_entities.
Outcome(ewc, unlinked, linked) == [ewc |-> ewc, unlinked |-> unlinked, linked |-> linked]

\* Mutant of NoCandidates: the entity without candidates is only logged.
NoCandidates_Ignored(entity) == Outcome(<<>>, <<>>, <<>>)

\* Mutant of NoCandidates: the entity goes to verification with its empty list.
NoCandidates_Verified(entity) ==
    Outcome(<< [entity |-> entity, candidates |-> <<>>] >>, <<>>, <<>>)

\* _retrieve_candidates: the else branch of `if docs:`.
NoCandidates(entity) == Outcome(<<>>, <<entity>>, <<>>)

\* _retrieve_candidates: docs, the documents of docs_with_scores after the
\* postprocess function of the entity's type, when it has one.
TransformedDocs(entity, docs_with_scores, choice) ==
    LET raw == Map(docs_with_scores, LAMBDA x : x.document)
    IN IF entity.type \in candidate_postprocess_types THEN ProcessFn(choice, raw) ELSE raw

\* Mutant of SkipsCheck: one or more documents above the skip threshold.
SkipsCheck_AnyAbove(skip, skip_check_docs) == Truthy(skip) /\ Len(skip_check_docs) >= 1

\* _retrieve_candidates: `if self.skip_llm_check_confidence:` and then
\* `if len(skip_check_docs) == 1:`.
SkipsCheck(skip, skip_check_docs) == Truthy(skip) /\ Len(skip_check_docs) = 1

\* _retrieve_candidates, one pass of the loop.
ProcessEntity(entity, docs_with_scores, choice, skip) ==
    LET docs == TransformedDocs(entity, docs_with_scores, choice)
        skip_check_docs == SelectSeq(docs_with_scores, LAMBDA x : x.score > Get(skip))
    IN IF docs # <<>>
       THEN IF SkipsCheck(skip, skip_check_docs)
            THEN Outcome(<<>>, <<>>,
                         << LinkedEntity(entity.type, entity.name,
                                         skip_check_docs[1].document, entity.src) >>)
            ELSE Outcome(<< [entity |-> entity, candidates |-> docs] >>, <<>>, <<>>)
       ELSE NoCandidates(entity)

\* _retrieve_candidates, the loop from pass i on.
RECURSIVE ProcessLoop(_, _, _, _, _, _)
ProcessLoop(to_link, batch_docs, choices, skip, i, acc) ==
    IF i > Len(to_link) THEN acc
    ELSE LET step == ProcessEntity(to_link[i], batch_docs[i], choices[i], skip)
         IN ProcessLoop(to_link, batch_docs, choices, skip, i + 1,
                        Outcome(acc.ewc \o step.ewc, acc.unlinked \o step.unlinked,
                                acc.linked \o step.linked))

\* LinkerResponse.
LinkerResponse(linked, unlinked) ==
    [linked_entities |-> linked, unlinked_entities |-> unlinked]

\* ------------------------------------------------ the verification loop

\* The texts llm.response returns, as character sequences.
Responses == { <<"x">>, <<"-", "1">>, <<"0">>, <<"1">>, <<"2">>, <<"3">> }

DigitValue ==
    "0" :> 0 @@ "1" :> 1 @@ "2" :> 2 @@ "3" :> 3 @@ "4" :> 4 @@
    "5" :> 5 @@ "6" :> 6 @@ "7" :> 7 @@ "8" :> 8 @@ "9" :> 9

RECURSIVE Strip(_)
Strip(s) ==
    IF s = <<>> THEN s
    ELSE IF Head(s) = " " THEN Strip(Tail(s))
    ELSE IF s[Len(s)] = " " THEN Strip(SubSeq(s, 1, Len(s) - 1))
    ELSE s

RECURSIVE DigitsValue(_)
DigitsValue(s) ==
    IF s = <<>> THEN 0
    ELSE 10 * DigitsValue(SubSeq(s, 1, Len(s) - 1)) + DigitValue[s[Len(s)]]

\* int(response): surrounding blanks stripped, an optional sign, then one or
\* more decimal digits; anything else is a ValueError (ok = FALSE).
ParseInt(response) ==
    LET t == Strip(response)
        signed == t # <<>> /\ Head(t) \in {"-", "+"}
        body == IF signed THEN Tail(t) ELSE t
        ok == body # <<>> /\ \A i \in DOMAIN body : body[i] \in DOMAIN DigitValue
    IN [ok |-> ok,
        value |-> IF ~ok THEN 0
                  ELSE IF signed /\ Head(t) = "-" THEN 0 - DigitsValue(body)
                  ELSE DigitsValue(body)]

\* What one pass of the verification loop does: raises, or appends to
\* linked_entities and unlinked_entities.
Verdict(raised, linked, unlinked) ==
    [raised |-> raised, linked |-> linked, unlinked |-> unlinked]

\* Mutant of IndexOf: the response taken as a zero-based index.
IndexOf_ZeroBased(value) == value

\* _link_by_llm: `int(response) - 1`.
IndexOf(value) == value - 1

\* Mutant of OnValueError: the unparsable response routed to unlinked.
OnValueError_Unlinked(entity) == Verdict(FALSE, <<>>, <<entity>>)

\* _link_by_llm: the ValueError handler logs and continues.
OnValueError(entity) == Verdict(FALSE, <<>>, <<>>)

\* _link_by_llm: `index > len(candidates)`.
UnexpectedIndex(index, candidates) == index > Len(candidates)

\* _link_by_llm: candidates[index], a zero-based subscript.
CandidateAt(candidates, index) == candidates[index + 1]

\* _link_by_llm, one pass of the loop over zip(entities_with_candidates, responses).
VerifyEntity(ewc, response) ==
    LET parsed == ParseInt(response)
        index == IndexOf(parsed.value)
        entity == ewc.entity
    IN IF ~parsed.ok THEN OnValueError(entity)
       ELSE IF UnexpectedIndex(index, ewc.candidates) THEN Verdict(FALSE, <<>>, <<entity>>)
       ELSE IF index < 0 THEN Verdict(FALSE, <<>>, <<entity>>)
       ELSE IF index >= Len(ewc.candidates) THEN Verdict(TRUE, <<>>, <<>>)
       ELSE Verdict(FALSE,
                    << LinkedEntity(entity.type, entity.name,
                                    CandidateAt(ewc.candidates, index), entity.src) >>,
                    <<>>)

\* _link_by_llm, the loop from pass i on; an IndexError ends it.
RECURSIVE VerifyLoop(_, _, _, _)
VerifyLoop(ewcs, responses, i, acc) ==
    IF i > Len(ewcs) THEN acc
    ELSE LET step == VerifyEntity(ewcs[i], responses[i])
         IN IF step.raised THEN Verdict(TRUE, <<>>, <<>>)
            ELSE VerifyLoop(ewcs, responses, i + 1,
                            Verdict(FALSE, acc.linked \o step.linked,
                                    acc.unlinked \o step.unlinked))

\* _link_by_llm: the request built for one entity (the prompt's fields).
Prompt(ewc) ==
    [entity_type |-> ewc.entity.type, entity_name |-> ewc.entity.name,
     normalized_entities |-> ewc.candidates]

\* One llm.response call: its prompt, and how far it is.
Call(ewc) == [prompt |-> Prompt(ewc), state |-> "pending", response |-> <<>>]

\* Mutant of GatherDone: the join returns with the first call that returned.
GatherDone_FirstCompleted(cs) == \E i \in DOMAIN cs : cs[i].state = "done"

\* asyncio.gather(*futures) returns once every call has returned.
GatherDone(cs) == \A i \in DOMAIN cs : cs[i].state = "done"

\* Mutant of GatherResponses: the responses in the order the calls returned
\* (as asyncio.as_completed hands them over).
GatherResponses_AsCompleted(cs, order) ==
    IF Len(order) = Len(cs) THEN [k \in DOMAIN cs |-> cs[order[k]].response]
    ELSE Map(cs, LAMBDA c : c.response)

\* responses = await asyncio.gather(*futures): the results stand in the order
\* of the awaitables passed, whatever the order in which they returned.
GatherResponses(cs, order) == Map(cs, LAMBDA c : c.response)

\* ------------------------------------------------------ Linker.run

\* The batch_retrieve_documents call of _retrieve_candidates.
RetrievalRequest(to_link) ==
    [queries |-> Map(to_link, LAMBDA x : x.name),
     limit |-> MaxDocs,
     filters |-> Map(to_link, EntityFilters)]

\* What the vector search may return for n queries: one hit list per query.
RECURSIVE BatchResponses(_)
BatchResponses(n) ==
    IF n = 0 THEN {<<>>}
    ELSE { Append(b, h) : b \in BatchResponses(n - 1), h \in HitLists(n) }

\* A vector search that breaks its contract returns fewer lists than queries.
MisalignedResponses(n) == IF n = 0 THEN {} ELSE {<<>>}

\* run up to its first await: the empty-input return, the split of
\* _retrieve_candidates, its early return, or the batched retrieval call.
Run ==
    /\ pc = "idle"
    /\ LET to_link == ToLinkEntities(entities)
           unlinked == NonLinkableEntities(entities)
       IN IF entities = <<>>
          THEN /\ pc' = "returned"
               /\ result' = << LinkerResponse(<<>>, <<>>) >>
               /\ UNCHANGED << unlinked_entities, retrieval_calls >>
          ELSE IF to_link = <<>>
          THEN /\ pc' = "returned"
               /\ unlinked_entities' = unlinked
               /\ result' = << LinkerResponse(<<>>, unlinked) >>
               /\ UNCHANGED retrieval_calls
          ELSE /\ pc' = "retrieving"
               /\ unlinked_entities' = unlinked
               /\ retrieval_calls' = Append(retrieval_calls, RetrievalRequest(to_link))
               /\ UNCHANGED result
    /\ UNCHANGED << candidate_docs, skip_llm_check_confidence, entities, score_threshold, batch_response,
                    entity_with_candidates, linked_entities, calls,
                    linked_entities_by_llm, unlinked_entities_by_llm, error, filterVars, searchVars,
                    gatherVars, retrieverVars >>

\* batch_retrieve_documents returns.
BatchRetrieveReturns ==
    /\ pc = "retrieving"
    /\ \E response \in BatchResponses(Len(ToLinkEntities(entities)))
                       \cup MisalignedResponses(Len(ToLinkEntities(entities))) :
          batch_response' = response
    /\ pc' = "process"
    /\ UNCHANGED << candidate_docs, skip_llm_check_confidence, entities, score_threshold, retrieval_calls,
                    entity_with_candidates, linked_entities, unlinked_entities, calls,
                    linked_entities_by_llm, unlinked_entities_by_llm, error, result,
                    filterVars, searchVars,
                    gatherVars, retrieverVars >>

\* batch_retrieve_documents raises; _retrieve_candidates and run do not catch.
BatchRetrieveRaises ==
    /\ pc = "retrieving"
    /\ pc' = "raised"
    /\ error' = "RetrievalError"
    /\ UNCHANGED << candidate_docs, skip_llm_check_confidence, entities, score_threshold, retrieval_calls,
                    batch_response, entity_with_candidates, linked_entities,
                    unlinked_entities, calls, linked_entities_by_llm,
                    unlinked_entities_by_llm, result, filterVars, searchVars,
                    gatherVars, retrieverVars >>

\* The choices of the postprocess functions for the entities of to_link: an
\* entity whose type has no function keeps its list.
PostprocessChoicesFor(to_link) ==
    { c \in [DOMAIN to_link -> PostprocessChoices] :
        \A i \in DOMAIN to_link :
            to_link[i].type \notin candidate_postprocess_types => c[i] = "keep" }

\* _retrieve_candidates from the score filter to its return, then run up to
\* its return (nothing awaits verification) or to the dispatch of _link_by_llm.
ProcessCandidates ==
    /\ pc = "process"
    /\ LET to_link == ToLinkEntities(entities)
           batch_docs == Map(batch_response,
                             LAMBDA docs : FilterSearchResults(docs, score_threshold,
                                                               TRUE, TRUE))
       IN IF Len(batch_docs) # Len(to_link)
          THEN \* zip(..., strict=True) raises ValueError
               /\ pc' = "raised"
               /\ error' = "ValueError"
               /\ UNCHANGED << entity_with_candidates, linked_entities,
                               unlinked_entities, calls, result, candidate_docs >>
          ELSE \E choices \in PostprocessChoicesFor(to_link) :
                 LET out == ProcessLoop(to_link, batch_docs, choices,
                                        skip_llm_check_confidence, 1,
                                        Outcome(<<>>, <<>>, <<>>))
                     unlinked == unlinked_entities \o out.unlinked
                 IN /\ candidate_docs' =
                         [i \in DOMAIN to_link |->
                             TransformedDocs(to_link[i], batch_docs[i], choices[i])]
                    /\ entity_with_candidates' = out.ewc
                    /\ linked_entities' = out.linked
                    /\ unlinked_entities' = unlinked
                    /\ IF out.ewc = <<>>
                       THEN /\ pc' = "returned"
                            /\ result' = << LinkerResponse(out.linked, unlinked) >>
                            /\ UNCHANGED calls
                       ELSE /\ pc' = "gathering"
                            /\ calls' = Map(out.ewc, Call)
                            /\ UNCHANGED result
                    /\ UNCHANGED error
    /\ batch_response' = <<>>
    /\ UNCHANGED << skip_llm_check_confidence, entities, score_threshold, retrieval_calls,
                    linked_entities_by_llm, unlinked_entities_by_llm, filterVars, searchVars,
                    gatherVars, retrieverVars >>

\* One of the gathered llm.response calls returns its text.
LLMReturns(i, response) ==
    /\ pc = "gathering"
    /\ calls[i].state = "pending"
    /\ calls' = [calls EXCEPT ![i] = [@ EXCEPT !.state = "done", !.response = response]]
    /\ UNCHANGED << pc, candidate_docs, skip_llm_check_confidence, entities, score_threshold,
                    retrieval_calls, batch_response, entity_with_candidates,
                    linked_entities, unlinked_entities, linked_entities_by_llm,
                    unlinked_entities_by_llm, error, result, filterVars, searchVars,
                    gatherVars, retrieverVars >>

\* Mutant of LLMRaises: the failure is swallowed and run returns what the
\* retrieval stage resolved.
LLMRaises_Salvage(i) ==
    /\ pc = "gathering"
    /\ calls[i].state = "pending"
    /\ calls' = [calls EXCEPT ![i] = [@ EXCEPT !.state = "failed"]]
    /\ pc' = "returned"
    /\ result' = << LinkerResponse(linked_entities, unlinked_entities) >>
    /\ UNCHANGED << candidate_docs, skip_llm_check_confidence, entities, score_threshold,
                    retrieval_calls, batch_response, entity_with_candidates,
                    linked_entities, unlinked_entities, linked_entities_by_llm,
                    unlinked_entities_by_llm, error, filterVars, searchVars,
                    gatherVars, retrieverVars >>

\* One of the gathered calls raises: gather raises it at once, and neither
\* _link_by_llm nor run catches.
LLMRaises(i) ==
    /\ pc = "gathering"
    /\ calls[i].state = "pending"
    /\ calls' = [calls EXCEPT ![i] = [@ EXCEPT !.state = "failed"]]
    /\ pc' = "raised"
    /\ error' = "LLMError"
    /\ UNCHANGED << candidate_docs, skip_llm_check_confidence, entities, score_threshold,
                    retrieval_calls, batch_response, entity_with_candidates,
                    linked_entities, unlinked_entities, linked_entities_by_llm,
                    unlinked_entities_by_llm, result, filterVars, searchVars,
                    gatherVars, retrieverVars >>

\* gather returns the responses in the order of the calls; the verification
\* loop runs, and run returns the merged lists, or the loop's IndexError.
GatherReturns ==
    /\ pc = "gathering"
    /\ GatherDone(calls)
    /\ LET responses == GatherResponses(calls, completion_order)
           out == VerifyLoop(entity_with_candidates, responses, 1,
                             Verdict(FALSE, <<>>, <<>>))
       IN IF out.raised
          THEN /\ pc' = "raised"
               /\ error' = "IndexError"
               /\ UNCHANGED << linked_entities_by_llm, unlinked_entities_by_llm, result >>
          ELSE /\ pc' = "returned"
               /\ linked_entities_by_llm' = out.linked
               /\ unlinked_entities_by_llm' = out.unlinked
               /\ result' = << LinkerResponse(linked_entities \o out.linked,
                                              unlinked_entities \o out.unlinked) >>
               /\ UNCHANGED error
    /\ UNCHANGED << candidate_docs, skip_llm_check_confidence, entities, score_threshold,
                    retrieval_calls, batch_response, entity_with_candidates,
                    linked_entities, unlinked_entities, calls, filterVars, searchVars,
                    gatherVars, retrieverVars >>

\* No batch_retrieve_documents call is under way.
QdrantIdle ==
    /\ qpc = "none"
    /\ queries = <<>>
    /\ batch_filters = [kind |-> "none", shared |-> <<>>, per_query |-> <<>>]
    /\ query_filters = <<>>
    /\ embed_calls = <<>>
    /\ search_calls = <<>>
    /\ search_response = <<>>
    /\ qresult = <<>>
    /\ qerror = ""

\* No post-processing call is made.
PostIdle ==
    /\ scored_docs = <<>>
    /\ post_args = [require_score |-> TRUE, keep_score |-> FALSE, max_length_per_doc |-> None,
                    merge_splits |-> TRUE, sort_by |-> None]
    /\ post_calls = <<>>

\* No retriever is at work.
SearchIdle == QdrantIdle /\ PostIdle

\* No completion order is recorded.
GatherIdle == completion_order = <<>>

\* No VectorSearchRetriever is at work.
RetrieverIdle ==
    /\ rpc = "none"
    /\ retriever = [vector_search |-> "none", filters |-> <<>>, max_length_per_doc |-> None,
                    merge_splits |-> TRUE, sort_by |-> None]
    /\ params = [top_k |-> 0, score_threshold |-> 0, filters |-> None]
    /\ retrieve_calls = <<>>

\* A constructed Linker and the arguments of the run call to come.
LinkerInit ==
    /\ pc = "idle"
    /\ skip_llm_check_confidence \in SkipConfidences
    /\ entities \in EntityLists
    /\ score_threshold \in ScoreThresholds
    /\ retrieval_calls = <<>>
    /\ batch_response = <<>>
    /\ entity_with_candidates = <<>>
    /\ linked_entities = <<>>
    /\ unlinked_entities = <<>>
    /\ calls = <<>>
    /\ linked_entities_by_llm = <<>>
    /\ unlinked_entities_by_llm = <<>>
    /\ error = ""
    /\ result = <<>>
    /\ candidate_docs = <<>>

Init ==
    /\ LinkerInit
    /\ GatherIdle
    /\ RetrieverIdle
    /\ filters = None
    /\ compiled = <<>>
    /\ SearchIdle

Next ==
    \/ Run
    \/ BatchRetrieveReturns
    \/ BatchRetrieveRaises
    \/ ProcessCandidates
    \/ \E i \in DOMAIN calls : \E response \in Responses : LLMReturns(i, response)
    \/ \E i \in DOMAIN calls : LLMRaises(i)
    \/ GatherReturns

Spec == Init /\ [][Next]_vars

\* One of the gathered llm.response calls returns its text; the order in
\* which the calls return is recorded.
LLMCompletes(i, response) ==
    /\ pc = "gathering"
    /\ calls[i].state = "pending"
    /\ calls' = [calls EXCEPT ![i] = [@ EXCEPT !.state = "done", !.response = response]]
    /\ completion_order' = Append(completion_order, i)
    /\ UNCHANGED << pc, candidate_docs, skip_llm_check_confidence, entities, score_threshold,
                    retrieval_calls, batch_response, entity_with_candidates,
                    linked_entities, unlinked_entities, linked_entities_by_llm,
                    unlinked_entities_by_llm, error, result, filterVars, searchVars,
                    retrieverVars >>

\* A Linker.run call with the completion order of its verification calls.
NextGather ==
    \/ Run
    \/ BatchRetrieveReturns
    \/ BatchRetrieveRaises
    \/ ProcessCandidates
    \/ \E i \in DOMAIN calls : \E response \in Responses : LLMCompletes(i, response)
    \/ \E i \in DOMAIN calls : LLMRaises(i)
    \/ GatherReturns

SpecGather == Init /\ [][NextGather]_vars

\* --------------------------------------------------- create_filters

\* A dict key that is not there.
Absent == "<absent>"

\* The keys of the clauses of a specification, by position.
ClauseKeys == << "type", "year", "lang", "city" >>

\* The operator keys a clause carries: each single operator, none at all, and
\* two clauses carrying two operators at once.
ClauseOperators ==
    { [range |-> FALSE, match |-> Absent, in |-> FALSE],
      [range |-> TRUE, match |-> Absent, in |-> FALSE],
      [range |-> FALSE, match |-> "value", in |-> FALSE],
      [range |-> FALSE, match |-> "text", in |-> FALSE],
      [range |-> FALSE, match |-> "any", in |-> FALSE],
      [range |-> FALSE, match |-> Absent, in |-> TRUE],
      [range |-> TRUE, match |-> "value", in |-> FALSE],
      [range |-> FALSE, match |-> "value", in |-> TRUE] }

\* The `type` tags of the wire format, and no tag.
ClauseTypes == { Absent, "must", "must_not", "should" }

\* A clause dict: key, the optional type tag, and which operator keys it has
\* (match: the sub-form of its `match` value).
Clause(key, type, op) ==
    [key |-> key, type |-> type, range |-> op.range, match |-> op.match, in |-> op.in]

RECURSIVE FilterListsOfLen(_)
FilterListsOfLen(n) ==
    IF n = 0 THEN {<<>>}
    ELSE { Append(fs, Clause(ClauseKeys[n], t, op)) :
             fs \in FilterListsOfLen(n - 1), t \in ClauseTypes, op \in ClauseOperators }

\* The filter specifications a caller passes: None, or a list of clauses.
FilterSpecs(longest) ==
    {None} \cup { Some(fs) : fs \in UNION { FilterListsOfLen(n) : n \in 0..longest } }

\* _create_field_condition has a branch for the clause.
HasOperator(f) == f.range \/ f.match # Absent \/ f.in

\* _create_field_condition: range first, then match (text, any, value), then in.
FieldCondition(f) ==
    [key |-> f.key,
     condition |-> IF f.range THEN "Range"
                   ELSE IF f.match = "text" THEN "MatchText"
                   ELSE IF f.match = "any" THEN "MatchAny"
                   ELSE IF f.match # Absent THEN "MatchValue"
                   ELSE "MatchAny"]

\* f.pop("type")
PopType(f) == [f EXCEPT !.type = Absent]

\* create_filters, the grouping loop: a clause without a (truthy) type is
\* appended to must_filters as it is; any other has its type popped and is
\* appended to must_not_filters or should_filters when the type names them.
MustFilters(fs) == SelectSeq(fs, LAMBDA f : f.type = Absent)
MustNotFilters(fs) == Map(SelectSeq(fs, LAMBDA f : f.type = "must_not"), PopType)
ShouldFilters(fs) == Map(SelectSeq(fs, LAMBDA f : f.type = "should"), PopType)

\* The clause dicts of the caller's list once the loop has run.
AfterGrouping(fs) == Map(fs, PopType)

\* models.Filter
Filter(must, must_not, should) == [must |-> must, must_not |-> must_not, should |-> should]

\* One create_filters call: the specification as given, whether the call
\* raised NotImplementedError, and the value returned (None or a Filter).
CreateFiltersCall(given, raised, value) ==
    [given |-> given, raised |-> raised, value |-> value]

\* create_filters(filters)
CreateFilters(given) ==
    IF given = None \/ Get(given) = <<>>
    THEN CreateFiltersCall(given, FALSE, None)
    ELSE LET fs == Get(given)
             grouped == MustFilters(fs) \o MustNotFilters(fs) \o ShouldFilters(fs)
         IN IF \E i \in DOMAIN grouped : ~HasOperator(grouped[i])
            THEN CreateFiltersCall(given, TRUE, None)
            ELSE CreateFiltersCall(given, FALSE,
                                   Some(Filter(Map(MustFilters(fs), FieldCondition),
                                               Map(MustNotFilters(fs), FieldCondition),
                                               Map(ShouldFilters(fs), FieldCondition))))

\* The caller's specification object after create_filters(filters).
FiltersAfter(given) ==
    IF given = None \/ Get(given) = <<>> THEN given ELSE Some(AfterGrouping(Get(given)))

\* A caller compiles its filter specification object (once more).
Compile ==
    /\ Len(compiled) < MaxCompiles
    /\ compiled' = Append(compiled, CreateFilters(filters))
    /\ filters' = FiltersAfter(filters)
    /\ UNCHANGED << linkerVars, searchVars, gatherVars, retrieverVars >>

\* No Linker.run call is under way.
LinkerIdle ==
    /\ pc = "idle"
    /\ skip_llm_check_confidence = None
    /\ entities = <<>>
    /\ score_threshold \in { t \in ScoreThresholds : \A u \in ScoreThresholds : t <= u }
    /\ retrieval_calls = <<>>
    /\ batch_response = <<>>
    /\ entity_with_candidates = <<>>
    /\ linked_entities = <<>>
    /\ unlinked_entities = <<>>
    /\ calls = <<>>
    /\ linked_entities_by_llm = <<>>
    /\ unlinked_entities_by_llm = <<>>
    /\ error = ""
    /\ result = <<>>
    /\ candidate_docs = <<>>

InitFilters ==
    /\ LinkerIdle
    /\ GatherIdle
    /\ RetrieverIdle
    /\ filters \in FilterSpecs(MaxClauses)
    /\ compiled = <<>>
    /\ SearchIdle

NextFilters == Compile

SpecFilters == InitFilters /\ [][NextFilters]_vars

\* ------------------------------------- Qdrant.batch_retrieve_documents

\* The filter specifications of one query: none, a clause with an operator, a
\* clause tagged "should", a clause without an operator.
QueryFilterSpecs ==
    { None,
      Some(<< Clause("type", Absent, [range |-> FALSE, match |-> "value", in |-> FALSE]) >>),
      Some(<< Clause("type", "should", [range |-> FALSE, match |-> Absent, in |-> TRUE]) >>),
      Some(<< Clause("type", Absent, [range |-> FALSE, match |-> Absent, in |-> FALSE]) >>) }

\* The `filters` argument: None; a list[dict], one specification shared by
\* all queries (the empty list is of this kind); or a list[list[dict]], one
\* specification per query.
BatchFilters(kind, shared, per_query) ==
    [kind |-> kind, shared |-> shared, per_query |-> per_query]

BatchFilterArgs ==
    { BatchFilters("none", <<>>, <<>>) }
    \cup { BatchFilters("shared", fs, <<>>) :
             fs \in {<<>>} \cup { Get(spec) : spec \in QueryFilterSpecs \ {None} } }
    \cup { BatchFilters("per_query", <<>>, specs) :
             specs \in SeqsUpTo(QueryFilterSpecs, MaxQueries + 1) \ {<<>>} }

\* The queries of a call: query i is the text i.
QueryLists == { [i \in 1..n |-> i] : n \in 0..MaxQueries }

\* `not filters`
NoFilters(f) == f.kind = "none" \/ (f.kind = "shared" /\ f.shared = <<>>)

\* list(map(create_filters, filters)): the calls from the i-th on, made until
\* one raises.
RECURSIVE MapCreateFilters(_, _, _)
MapCreateFilters(specs, i, acc) ==
    IF i > Len(specs) THEN acc
    ELSE LET call == CreateFilters(specs[i])
         IN IF call.raised THEN Append(acc, call)
            ELSE MapCreateFilters(specs, i + 1, Append(acc, call))

\* The create_filters calls batch_retrieve_documents makes, in order.
FilterCalls(f) ==
    IF NoFilters(f) THEN <<>>
    ELSE IF f.kind = "shared" THEN << CreateFilters(Some(f.shared)) >>
    ELSE MapCreateFilters(f.per_query, 1, <<>>)

\* query_filters, for n queries, when none of the calls fcalls raised.
QueryFilters(f, n, fcalls) ==
    IF NoFilters(f) THEN [i \in 1..n |-> None]
    ELSE IF f.kind = "shared" THEN [i \in 1..n |-> fcalls[1].value]
    ELSE Map(fcalls, LAMBDA c : c.value)

\* The caller's filters once the calls fcalls were made on them.
BatchFiltersAfter(f, fcalls) ==
    IF NoFilters(f) THEN f
    ELSE IF f.kind = "shared" THEN [f EXCEPT !.shared = Get(FiltersAfter(Some(f.shared)))]
    ELSE [f EXCEPT !.per_query =
              [i \in DOMAIN f.per_query |->
                  IF i <= Len(fcalls) THEN FiltersAfter(f.per_query[i])
                  ELSE f.per_query[i]]]

\* The vector the embedding gives the text q.
Vector(q) == [of |-> q]

\* Mutant of EmbedRequests: one embedding call per query.
EmbedRequests_PerQuery(qs) == Map(qs, LAMBDA q : << q >>)

\* The embed_texts calls of one batch_retrieve_documents call: one, with all
\* the queries.
EmbedRequests(qs) == << qs >>

\* models.SearchRequest
SearchRequest(vector, filter, limit) == [vector |-> vector, filter |-> filter, limit |-> limit]

\* Mutant of ZipRaises: zip without strict=True stops at the shorter list.
ZipRaises_Never(xs, ys) == FALSE

\* zip(xs, ys, strict=True) raises ValueError.
ZipRaises(xs, ys) == Len(xs) # Len(ys)

\* [SearchRequest(...) for vector, filters in zip(query_vectors, query_filters)]
SearchRequests(query_vectors, qfilters) ==
    [i \in (DOMAIN query_vectors) \cap (DOMAIN qfilters) |->
        SearchRequest(query_vectors[i], qfilters[i], MaxDocs)]

\* A models.ScoredPoint of a search response.
ScoredPoint(payload, score) == [payload |-> payload, score |-> score]

\* The hits the backend returns for query q: at most MaxDocs, in ranking
\* order, the hit at rank r with the payload Doc(q, r).
QdrantHits(q) ==
    { [r \in 1..n |-> ScoredPoint(Doc(q, r), IF r = 1 THEN 3 ELSE IF r = 2 THEN 2 ELSE 1)] :
        n \in 0..MaxDocs }

\* What search_batch may return for n requests: one hit list per request.
RECURSIVE SearchResponses(_)
SearchResponses(n) ==
    IF n = 0 THEN {<<>>}
    ELSE { Append(b, h) : b \in SearchResponses(n - 1), h \in QdrantHits(n) }

\* class ScoredDocument: its fields, all required, and extra="forbid".
ScoredDocumentFields == {"document", "score"}

\* ScoredDocument(**kwargs) raises pydantic's ValidationError.
ValidationError(keywords) == keywords # ScoredDocumentFields

\* The keywords of the ScoredDocument(...) calls of the retrieve methods.
ResultKeywords == {"doc", "score"}

\* [[ScoredDocument(...) for x in docs] for docs in batch_docs], when the
\* constructor accepts the keywords.
ResultLists(batch_docs) ==
    [i \in DOMAIN batch_docs |->
        Map(batch_docs[i], LAMBDA x : ScoredDocument(x.payload, x.score))]

\* The call up to its first await: the filters are compiled and embed_texts
\* is called, or create_filters raises NotImplementedError.
BatchRetrieveDocuments ==
    /\ qpc = "called"
    /\ LET fcalls == FilterCalls(batch_filters)
       IN /\ compiled' = compiled \o fcalls
          /\ batch_filters' = BatchFiltersAfter(batch_filters, fcalls)
          /\ IF \E i \in DOMAIN fcalls : fcalls[i].raised
             THEN /\ qpc' = "raised"
                  /\ qerror' = "NotImplementedError"
                  /\ UNCHANGED << query_filters, embed_calls >>
             ELSE /\ qpc' = "embedding"
                  /\ query_filters' = QueryFilters(batch_filters, Len(queries), fcalls)
                  /\ embed_calls' = embed_calls \o EmbedRequests(queries)
                  /\ UNCHANGED qerror
    /\ UNCHANGED << queries, search_calls, search_response, qresult, filters, linkerVars, postVars,
                    gatherVars, retrieverVars >>

\* embed_texts returns one vector per text: the requests are built and
\* search_batch is called, or the strict zip raises ValueError.
EmbedTextsReturns ==
    /\ qpc = "embedding"
    /\ LET query_vectors == Map(queries, Vector)
       IN IF ZipRaises(query_vectors, query_filters)
          THEN /\ qpc' = "raised"
               /\ qerror' = "ValueError"
               /\ UNCHANGED search_calls
          ELSE /\ qpc' = "searching"
               /\ search_calls' = Append(search_calls,
                                         SearchRequests(query_vectors, query_filters))
               /\ UNCHANGED qerror
    /\ UNCHANGED << queries, batch_filters, query_filters, embed_calls, search_response,
                    qresult, filterVars, linkerVars, postVars,
                    gatherVars, retrieverVars >>

\* embed_texts raises; batch_retrieve_documents does not catch.
EmbedTextsRaises ==
    /\ qpc = "embedding"
    /\ qpc' = "raised"
    /\ qerror' = "EmbeddingError"
    /\ UNCHANGED << queries, batch_filters, query_filters, embed_calls, search_calls,
                    search_response, qresult, filterVars, linkerVars, postVars,
                    gatherVars, retrieverVars >>

\* search_batch returns batch_docs: the logging loop zips it strictly with
\* the queries, then the result lists are built.
SearchBatchReturns ==
    /\ qpc = "searching"
    /\ \E batch_docs \in SearchResponses(Len(queries)) \cup MisalignedResponses(Len(queries)) :
          /\ search_response' = << batch_docs >>
          /\ IF ZipRaises(queries, batch_docs)
             THEN /\ qpc' = "raised"
                  /\ qerror' = "ValueError"
                  /\ UNCHANGED qresult
             ELSE IF (\E i \in DOMAIN batch_docs : batch_docs[i] # <<>>)
                     /\ ValidationError(ResultKeywords)
             THEN /\ qpc' = "raised"
                  /\ qerror' = "ValidationError"
                  /\ UNCHANGED qresult
             ELSE /\ qpc' = "returned"
                  /\ qresult' = << ResultLists(batch_docs) >>
                  /\ UNCHANGED qerror
    /\ UNCHANGED << queries, batch_filters, query_filters, embed_calls, search_calls,
                    filterVars, linkerVars, postVars,
                    gatherVars, retrieverVars >>

\* search_batch raises; batch_retrieve_documents does not catch.
SearchBatchRaises ==
    /\ qpc = "searching"
    /\ qpc' = "raised"
    /\ qerror' = "SearchError"
    /\ UNCHANGED << queries, batch_filters, query_filters, embed_calls, search_calls,
                    search_response, qresult, filterVars, linkerVars, postVars,
                    gatherVars, retrieverVars >>

\* A batch_retrieve_documents call about to run, with its arguments.
QdrantCalled ==
    /\ qpc = "called"
    /\ queries \in QueryLists
    /\ batch_filters \in BatchFilterArgs
    /\ query_filters = <<>>
    /\ embed_calls = <<>>
    /\ search_calls = <<>>
    /\ search_response = <<>>
    /\ qresult = <<>>
    /\ qerror = ""

InitQdrant ==
    /\ LinkerIdle
    /\ GatherIdle
    /\ RetrieverIdle
    /\ filters = None
    /\ compiled = <<>>
    /\ QdrantCalled
    /\ PostIdle

NextQdrant ==
    \/ BatchRetrieveDocuments
    \/ EmbedTextsReturns
    \/ EmbedTextsRaises
    \/ SearchBatchReturns
    \/ SearchBatchRaises

SpecQdrant == InitQdrant /\ [][NextQdrant]_vars

\* A Linker.run call, or a batch_retrieve_documents call on its own.
InitRetrieval == Init \/ InitQdrant

NextRetrieval ==
    \/ Next
    \/ NextQdrant

SpecRetrieval == InitRetrieval /\ [][NextRetrieval]_vars

\* ------------------------------------------------ filter_search_results

\* Scores and thresholds of the results to post-process, as levels from 0
\* (the float 0.0) up; ScoredDocument.score is a required float, so every
\* result has one.
PostScores == {0, 1, 2}
PostThresholds == {0, 1, 2}

\* The result lists to filter: the result at position i wraps the document i.
ScoredLists ==
    { [i \in DOMAIN ss |-> ScoredDocument(i, ss[i])] : ss \in SeqsUpTo(PostScores, MaxResults) }

\* The keyword arguments of a call besides score_threshold.
PostArgs(require, keep, max_length, merge, sort) ==
    [require_score |-> require, keep_score |-> keep, max_length_per_doc |-> max_length,
     merge_splits |-> merge, sort_by |-> sort]

\* One call of a post-processing function: the list it was given, its
\* score_threshold, the exception it raised ("" for none) and its value.
PostCall(fn, input, threshold, raised, value) ==
    [fn |-> fn, input |-> input, score_threshold |-> threshold, raised |-> raised,
     value |-> value]

\* list(filter_search_results(scored_docs, score_threshold=..., ...))
FilterSearchResultsCall ==
    /\ post_calls = <<>>
    /\ \E threshold \in PostThresholds :
          post_calls' =
              << PostCall("filter_search_results", scored_docs, threshold, "",
                          FilterSearchResults(scored_docs, threshold,
                                              post_args.require_score,
                                              post_args.keep_score)) >>
    /\ UNCHANGED << scored_docs, post_args, linkerVars, filterVars, qdrantVars,
                    gatherVars, retrieverVars >>

InitFilterResults ==
    /\ LinkerIdle
    /\ GatherIdle
    /\ RetrieverIdle
    /\ filters = None
    /\ compiled = <<>>
    /\ QdrantIdle
    /\ scored_docs \in ScoredLists
    /\ post_args \in { PostArgs(require, keep, None, TRUE, None) :
                         require \in BOOLEAN, keep \in BOOLEAN }
    /\ post_calls = <<>>

NextFilterResults == FilterSearchResultsCall

SpecFilterResults == InitFilterResults /\ [][NextFilterResults]_vars

\* ------------------------- post_process_documents, merge_docuemnt_splits

\* class Document: source_id and index are None or a value; content is held
\* as the sequence of its tokens.
Document(id, source_id, index, content) ==
    [id |-> id, source_id |-> source_id, index |-> index, content |-> content]

\* A text of n tokens.
Words(n) == [i \in 1..n |-> "w"]

\* count_approximate_tokens(text): len(enc.encode(text)).
count_approximate_tokens(content) == Len(content)

\* The source ids, in the order Python compares the strings.
SourceIds == << "s0", "s1" >>

\* The retrieved results to post-process: the three splits of source s1, the
\* first scoring lowest; a longer, lower scoring record with the id of the
\* second; a document without source that scores 0.0; the first split of s0.
Retrieved ==
    { ScoredDocument(Document("a", Some("s1"), Some(0), Words(1)), 1),
      ScoredDocument(Document("b", Some("s1"), Some(1), Words(1)), 2),
      ScoredDocument(Document("c", Some("s1"), Some(2), Words(2)), 2),
      ScoredDocument(Document("b", Some("s1"), Some(1), Words(3)), 1),
      ScoredDocument(Document("d", None, None, Words(2)), 0),
      ScoredDocument(Document("e", Some("s0"), Some(0), Words(3)), 2) }

\* max_length_per_doc and sort_by as the retriever may be configured: no
\* limit or two tokens; no sort key or key=lambda x: len(x.content).
MaxLengths == { None, Some(2) }
SortKeys == { None, Some("len(content)") }

\* sorted(s, key=...), keys[i] the key of s[i]: Python's sort is stable.
StableSort(s, keys) ==
    LET Rank(i) == Cardinality({ j \in DOMAIN s :
                                   keys[j] < keys[i] \/ (keys[j] = keys[i] /\ j < i) }) + 1
    IN [k \in DOMAIN s |-> s[CHOOSE i \in DOMAIN s : Rank(i) = k]]

\* [s[i] for i in range(len(s)) if Keep(i)]
SelectAt(s, Keep(_)) ==
    Map(SelectSeq([i \in DOMAIN s |-> i], Keep), LAMBDA i : s[i])

\* The sort key (x.id is None, x.source_id): id is a required str, so the
\* first component is False throughout and source_id decides.
SourceRank(source_id) ==
    IF source_id = None THEN 0
    ELSE CHOOSE i \in DOMAIN SourceIds : SourceIds[i] = Get(source_id)

\* sorted(docs, key=...) raises TypeError: it compares a None source_id with
\* a str one.
SortRaises(docs) ==
    \E i, j \in DOMAIN docs : docs[i].source_id = None /\ docs[j].source_id # None

\* merge_docuemnt_splits(docs), when the sort does not raise: the groups of
\* groupby are the runs of one source_id in the sorted list; a group is cut
\* down to its first document with index == 0 when it has one.
merge_docuemnt_splits(docs) ==
    LET sorted == StableSort(docs, Map(docs, LAMBDA x : SourceRank(x.source_id)))
        Heads(i) == { j \in DOMAIN sorted : /\ sorted[j].source_id = sorted[i].source_id
                                            /\ sorted[j].index = Some(0) }
    IN SelectAt(sorted, LAMBDA i : Heads(i) = {} \/ (i \in Heads(i) /\ \A j \in Heads(i) : i <= j))

\* list({x.id: x for x in docs}.values()): one document per id, at the place
\* of the id's first document, and the id's last document.
Dedupe(docs) ==
    LET Same(i) == { j \in DOMAIN docs : docs[j].id = docs[i].id }
        firsts == SelectSeq([i \in DOMAIN docs |-> i], LAMBDA i : \A j \in Same(i) : i <= j)
    IN Map(firsts, LAMBDA i : docs[CHOOSE j \in Same(i) : \A k \in Same(i) : k <= j])

\* What a call returned or raised.
Returned(value) == [raised |-> "", value |-> value]
Raised(exception) == [raised |-> exception, value |-> <<>>]

\* post_process_documents(scored, score_threshold=threshold, **args)
post_process_documents(scored, threshold, args) ==
    LET filtered == FilterSearchResults(scored, threshold, FALSE, FALSE)
        unique == Dedupe(filtered)
        fitted == IF Truthy(args.max_length_per_doc)
                  THEN SelectSeq(unique, LAMBDA x : count_approximate_tokens(x.content)
                                                       < Get(args.max_length_per_doc))
                  ELSE unique
        merged == IF args.merge_splits THEN merge_docuemnt_splits(fitted) ELSE fitted
    IN IF args.merge_splits /\ SortRaises(fitted) THEN Raised("TypeError")
       ELSE IF args.sort_by # None
       THEN Returned(StableSort(merged, Map(merged, LAMBDA x : Len(x.content))))
       ELSE Returned(merged)

\* A post_process_documents call on scored_docs.
PostProcess ==
    /\ post_calls = <<>>
    /\ \E threshold \in PostThresholds :
          LET out == post_process_documents(scored_docs, threshold, post_args)
          IN post_calls' = << PostCall("post_process_documents", scored_docs, threshold,
                                       out.raised, out.value) >>
    /\ UNCHANGED << scored_docs, post_args, linkerVars, filterVars, qdrantVars,
                    gatherVars, retrieverVars >>

\* The call made once more on the same results with a raised score_threshold.
PostProcessRaised ==
    /\ Len(post_calls) = 1
    /\ \E threshold \in PostThresholds :
          /\ threshold > post_calls[1].score_threshold
          /\ LET out == post_process_documents(scored_docs, threshold, post_args)
             IN post_calls' = Append(post_calls,
                                     PostCall("post_process_documents", scored_docs,
                                              threshold, out.raised, out.value))
    /\ UNCHANGED << scored_docs, post_args, linkerVars, filterVars, qdrantVars,
                    gatherVars, retrieverVars >>

InitPostProcess ==
    /\ LinkerIdle
    /\ GatherIdle
    /\ RetrieverIdle
    /\ filters = None
    /\ compiled = <<>>
    /\ QdrantIdle
    /\ scored_docs \in SeqsUpTo(Retrieved, MaxResults)
    /\ post_args \in { PostArgs(FALSE, FALSE, max_length, merge, sort) :
                         max_length \in MaxLengths, merge \in BOOLEAN, sort \in SortKeys }
    /\ post_calls = <<>>

NextPostProcess ==
    \/ PostProcess
    \/ PostProcessRaised

SpecPostProcess == InitPostProcess /\ [][NextPostProcess]_vars

\* merge_docuemnt_splits(docs) as a call.
MergeCall(docs) ==
    IF SortRaises(docs)
    THEN PostCall("merge_docuemnt_splits", docs, 0, "TypeError", <<>>)
    ELSE PostCall("merge_docuemnt_splits", docs, 0, "", merge_docuemnt_splits(docs))

\* merge_docuemnt_splits on the documents of scored_docs.
MergeSplits ==
    /\ post_calls = <<>>
    /\ post_calls' = << MergeCall(Map(scored_docs, LAMBDA x : x.document)) >>
    /\ UNCHANGED << scored_docs, post_args, linkerVars, filterVars, qdrantVars,
                    gatherVars, retrieverVars >>

\* merge_docuemnt_splits on the list the first call returned.
MergeSplitsAgain ==
    /\ Len(post_calls) = 1
    /\ post_calls[1].raised = ""
    /\ post_calls' = Append(post_calls, MergeCall(post_calls[1].value))
    /\ UNCHANGED << scored_docs, post_args, linkerVars, filterVars, qdrantVars,
                    gatherVars, retrieverVars >>

InitMerge ==
    /\ LinkerIdle
    /\ GatherIdle
    /\ RetrieverIdle
    /\ filters = None
    /\ compiled = <<>>
    /\ QdrantIdle
    /\ scored_docs \in SeqsUpTo(Retrieved, MaxResults)
    /\ post_args = PostArgs(FALSE, FALSE, None, TRUE, None)
    /\ post_calls = <<>>

NextMerge ==
    \/ MergeSplits
    \/ MergeSplitsAgain

SpecMerge == InitMerge /\ [][NextMerge]_vars

\* ------------------------------------- VectorSearchRetriever.retrieve

\* The vector search a retriever is constructed with: the Qdrant of this
\* package, or another implementation of the VectorSearch interface, which
\* returns ScoredDocuments and leaves its arguments alone.
VectorSearchKinds == { "Qdrant", "VectorSearch" }

\* VectorSearchRetriever(filters=...): no filters (stored as []), or one
\* clause that excludes a language.
RetrieverFilters ==
    { None,
      Some(<< Clause("lang", "must_not", [range |-> FALSE, match |-> "value", in |-> FALSE]) >>) }

\* RetrieveParams(filters=...): None, an empty list, or one clause.
ParamsFilters ==
    { None,
      Some(<<>>),
      Some(<< Clause("type", Absent, [range |-> FALSE, match |-> "value", in |-> FALSE]) >>) }

\* RetrieveParams.top_k and score_threshold.
TopKs == { 0, 1, 2 }
RetrieveThresholds == { 1 }

\* The hits of the query in ranking order; the search returns the first n.
Ranking ==
    << ScoredDocument(Document("e", Some("s0"), Some(0), Words(3)), 2),
       ScoredDocument(Document("b", Some("s1"), Some(1), Words(1)), 2),
       ScoredDocument(Document("c", Some("s1"), Some(2), Words(2)), 2),
       ScoredDocument(Document("a", Some("s1"), Some(0), Words(1)), 1),
       ScoredDocument(Document("d", None, None, Words(2)), 0) >>

RetrieverHits == { SubSeq(Ranking, 1, n) : n \in 0..MaxResults }

\* VectorSearchRetriever.__init__: `if not filters: filters = []`.
Retriever(vector_search, given_filters, max_length, merge, sort) ==
    [vector_search |-> vector_search,
     filters |-> IF given_filters = None \/ Get(given_filters) = <<>> THEN <<>>
                 ELSE Get(given_filters),
     max_length_per_doc |-> max_length, merge_splits |-> merge, sort_by |-> sort]

\* RetrieveParams
RetrieveParams(top_k, threshold, given_filters) ==
    [top_k |-> top_k, score_threshold |-> threshold, filters |-> given_filters]

\* `params.filters if params.filters else []` takes the list object of params.
UsesParamsList(p) == p.filters # None /\ Get(p.filters) # <<>>

\* The list of `filters += self.filters`: the list of params extended in
\* place, or a new list.
JoinedFilters(p, r) ==
    IF UsesParamsList(p) THEN Get(p.filters) \o r.filters ELSE r.filters

\* params after `filters += self.filters`.
ParamsAfterJoin(p, r) ==
    IF UsesParamsList(p) THEN [p EXCEPT !.filters = Some(JoinedFilters(p, r))] ELSE p

\* One retrieve call: params.filters and self.filters as it found them, the
\* filter list and limit it passed to the vector search, the exception it
\* raised ("" for none) and the documents it returned.
RetrieveCall(params_filters, self_filters, passed, limit, raised, value) ==
    [params_filters |-> params_filters, self_filters |-> self_filters, filters |-> passed,
     limit |-> limit, raised |-> raised, value |-> value]

\* docs[: top_k] for top_k >= 0
Truncated(docs, top_k) ==
    SubSeq(docs, 1, IF Len(docs) < top_k THEN Len(docs) ELSE top_k)

\* retrieve from the search results on: post_process_documents, then the slice.
RetrieveOutcome(scored, p, r) ==
    LET out == post_process_documents(scored, p.score_threshold, r)
    IN IF out.raised # "" THEN out ELSE Returned(Truncated(out.value, p.top_k))

\* The clause dicts of a list once Qdrant.retrieve_documents has handed a
\* list holding them to create_filters.
PoppedBy(kind, passed, clauses) ==
    IF kind = "Qdrant" /\ passed # <<>> THEN AfterGrouping(clauses) ELSE clauses

\* retrieve up to its await: the filter list is put together and handed to
\* vector_search.retrieve_documents.
Retrieve ==
    /\ rpc = "idle"
    /\ Len(retrieve_calls) < MaxRetrieves
    /\ retrieve_calls' =
          Append(retrieve_calls,
                 RetrieveCall(params.filters, retriever.filters,
                              JoinedFilters(params, retriever), params.top_k, "", <<>>))
    /\ params' = ParamsAfterJoin(params, retriever)
    /\ rpc' = "searching"
    /\ UNCHANGED << retriever, linkerVars, filterVars, searchVars, gatherVars >>

\* What the end of the pending call leaves behind: its outcome in the log,
\* and the clause dicts as the vector search left them.
RetrieveEnds(out, compiled_filters) ==
    LET n == Len(retrieve_calls)
        passed == retrieve_calls[n].filters
        kind == IF compiled_filters THEN retriever.vector_search ELSE "VectorSearch"
    IN /\ retrieve_calls' = [retrieve_calls EXCEPT ![n].raised = out.raised,
                                                   ![n].value = out.value]
       /\ retriever' = [retriever EXCEPT !.filters = PoppedBy(kind, passed, @)]
       /\ params' = IF UsesParamsList(params)
                    THEN [params EXCEPT !.filters = Some(PoppedBy(kind, passed, Get(@)))]
                    ELSE params
       /\ rpc' = "idle"
       /\ UNCHANGED << linkerVars, filterVars, searchVars, gatherVars >>

\* vector_search.retrieve_documents ends with hits found: Qdrant compiles the
\* filters, searches, and fails to build a ScoredDocument for a hit; another
\* implementation returns the hits, which retrieve post-processes and cuts.
SearchReturns ==
    /\ rpc = "searching"
    /\ \E hits \in RetrieverHits :
          LET passed == retrieve_calls[Len(retrieve_calls)].filters
          IN IF retriever.vector_search = "Qdrant"
             THEN IF CreateFilters(Some(passed)).raised
                  THEN RetrieveEnds(Raised("NotImplementedError"), TRUE)
                  ELSE IF hits # <<>> /\ ValidationError(ResultKeywords)
                  THEN RetrieveEnds(Raised("ValidationError"), TRUE)
                  ELSE RetrieveEnds(RetrieveOutcome(<<>>, params, retriever), TRUE)
             ELSE RetrieveEnds(RetrieveOutcome(hits, params, retriever), TRUE)

\* vector_search.retrieve_documents raises: the embedding fails, before the
\* filters are compiled, or the search does, after.
SearchRaises ==
    /\ rpc = "searching"
    /\ \E compiled_filters \in BOOLEAN : RetrieveEnds(Raised("SearchError"), compiled_filters)

\* A constructed retriever and the params object of the calls to come.
InitRetriever ==
    /\ LinkerIdle
    /\ GatherIdle
    /\ filters = None
    /\ compiled = <<>>
    /\ SearchIdle
    /\ rpc = "idle"
    /\ retriever \in { Retriever(kind, fs, config[1], config[2], config[3]) :
                          kind \in VectorSearchKinds, fs \in RetrieverFilters,
                          config \in { << None, TRUE, None >>,
                                       << Some(2), FALSE, Some("len(content)") >> } }
    /\ params \in { RetrieveParams(top_k, threshold, fs) :
                       top_k \in TopKs, threshold \in RetrieveThresholds,
                       fs \in ParamsFilters }
    /\ retrieve_calls = <<>>

NextRetriever ==
    \/ Retrieve
    \/ SearchReturns
    \/ SearchRaises

SpecRetriever == InitRetriever /\ [][NextRetriever]_vars

\* ------------------------------------------- properties of create_filters

\* The conditions of the clauses of fs whose type tag is one of tags, in order.
ConditionsTagged(fs, tags) == Map(SelectSeq(fs, LAMBDA f : f.type \in tags), FieldCondition)

\* C9: a call on a non-empty specification that returns a filter has put the
\* condition of every clause into the group its type tag names, must when the
\* tag is absent or "must", in order and nowhere else; a call on an empty or
\* absent specification returns None.
C9_GroupsByTag ==
    \A c \in DOMAIN compiled :
        LET call == compiled[c]
        IN IF call.given = None \/ Get(call.given) = <<>>
           THEN ~call.raised /\ call.value = None
           ELSE ~call.raised =>
                  /\ call.value # None
                  /\ Get(call.value).must = ConditionsTagged(Get(call.given), {Absent, "must"})
                  /\ Get(call.value).must_not = ConditionsTagged(Get(call.given), {"must_not"})
                  /\ Get(call.value).should = ConditionsTagged(Get(call.given), {"should"})

\* C10: a call on a specification holding a clause with none of the operators
\* range, match, in raises NotImplementedError, whatever the clause's type tag.
C10_UnsupportedRaises ==
    \A c \in DOMAIN compiled :
        LET call == compiled[c]
        IN (call.given # None /\ \E i \in DOMAIN Get(call.given) : ~HasOperator(Get(call.given)[i]))
              => call.raised

\* C22: create_filters leaves the specification object it is given as it
\* was, so every compilation of the object is given the clauses of the first
\* and returns the same must / must_not / should grouping (or raises alike).
C22_CompilesAlike ==
    compiled # <<>> =>
        /\ filters = compiled[1].given
        /\ \A c \in DOMAIN compiled :
              /\ compiled[c].given = compiled[1].given
              /\ compiled[c].raised = compiled[1].raised
              /\ compiled[c].value = compiled[1].value

\* ------------------------------- properties of batch_retrieve_documents

\* The call has ended.
QdrantEnded == qpc \in {"returned", "raised"}

\* C11: a call whose search_batch returned one hit list per query returns a
\* list with, for every query in order, one ScoredDocument per hit in the
\* backend's order, carrying the hit's payload and score; so also when the
\* backend returned at least one hit.
C11_ResultsMirrorHits ==
    (search_response # <<>> /\ Len(search_response[1]) = Len(queries))
       => /\ qpc = "returned"
          /\ Len(qresult[1]) = Len(queries)
          /\ \A i \in DOMAIN queries :
                qresult[1][i] = Map(search_response[1][i],
                                    LAMBDA x : ScoredDocument(x.payload, x.score))

\* The filters of the call are per query and their number is not the number
\* of queries.
FiltersMisaligned ==
    batch_filters.kind = "per_query" /\ Len(batch_filters.per_query) # Len(queries)

\* The filter the search request of query i is to carry: none without
\* filters, what the one create_filters call returned for shared filters, what
\* the i-th call returned for per-query filters.
CompiledFilterOf(i) ==
    IF NoFilters(batch_filters) THEN None
    ELSE IF batch_filters.kind = "shared" THEN compiled[1].value
    ELSE compiled[i].value

\* C17 as stated: a batch_retrieve_documents call over N >= 1 queries has,
\* when it ends, issued exactly one embed_texts call and exactly one
\* search_batch call with N requests, request i carrying the vector and the
\* compiled filter of query i; a Linker.run issues at most one batched
\* retrieval.
C17_ExactlyOneEach ==
    /\ Len(retrieval_calls) <= 1
    /\ (QdrantEnded /\ Len(queries) >= 1)
          => /\ Len(embed_calls) = 1
             /\ Len(search_calls) = 1
             /\ Len(search_calls[1]) = Len(queries)
             /\ \A i \in DOMAIN queries :
                   /\ search_calls[1][i].vector = Vector(queries[i])
                   /\ search_calls[1][i].filter = CompiledFilterOf(i)

\* C17, amended: a batch_retrieve_documents call issues at most one
\* embed_texts call, with all the queries, and at most one search_batch
\* call; a call over
\* N >= 1 queries whose filters compile and match the queries in number, and
\* whose embedding call returns, has issued exactly one of each when it ends,
\* the search with N requests, request i carrying the vector of query i and
\* the compiled filter of query i. A Linker.run issues at most one
\* batch_retrieve_documents call.
C17_OneRoundTrip ==
    /\ Len(retrieval_calls) <= 1
    /\ Len(embed_calls) <= 1
    /\ Len(search_calls) <= 1
    /\ \A e \in DOMAIN embed_calls : embed_calls[e] = queries
    /\ (/\ QdrantEnded
        /\ Len(queries) >= 1
        /\ ~FiltersMisaligned
        /\ qerror \notin {"NotImplementedError", "EmbeddingError"})
          => /\ Len(embed_calls) = 1
             /\ Len(search_calls) = 1
             /\ Len(search_calls[1]) = Len(queries)
             /\ \A i \in DOMAIN queries :
                   /\ search_calls[1][i].vector = Vector(queries[i])
                   /\ search_calls[1][i].filter = CompiledFilterOf(i)

C17_Witness ==
    /\ QdrantEnded
    /\ Len(queries) >= 2
    /\ batch_filters.kind = "per_query"
    /\ Len(search_calls) = 1
    /\ Len(embed_calls) = 1
    /\ search_calls[1][1].filter # search_calls[1][2].filter
    /\ qerror # "ValueError"

C12_KeepsByScore ==
    \A c \in DOMAIN post_calls :
        LET call == post_calls[c]
            kept == SelectSeq(call.input, LAMBDA r : r.score >= call.score_threshold)
        IN call.fn = "filter_search_results" =>
              call.value = IF post_args.keep_score THEN kept
                           ELSE Map(kept, LAMBDA r : r.document)

\* The members of a list, and its members from the source source_id.
Members(list) == { list[i] : i \in DOMAIN list }
FromSource(list, source_id) == SelectSeq(list, LAMBDA x : x.source_id = source_id)

\* The two post_process_documents calls with a lower and a raised threshold
\* have both returned.
BothReturned ==
    /\ Len(post_calls) = 2
    /\ \A c \in DOMAIN post_calls :
          post_calls[c].fn = "post_process_documents" /\ post_calls[c].raised = ""

\* C13 as stated: with merge_splits on, the call with the raised threshold
\* returns no more documents than the call with the lower one.
C13_RaisingNeverAdds ==
    (BothReturned /\ post_args.merge_splits)
        => Len(post_calls[2].value) <= Len(post_calls[1].value)

\* C13, amended: with merge_splits off and no max_length_per_doc, both calls
\* return and the call with the raised threshold returns no more documents
\* than the call with the lower one.
C13_RaisingNeverAdds_Unmerged ==
    (/\ Len(post_calls) = 2
     /\ ~post_args.merge_splits
     /\ post_args.max_length_per_doc = None)
        => /\ BothReturned
           /\ Len(post_calls[2].value) <= Len(post_calls[1].value)

C13_Witness ==
    /\ BothReturned
    /\ ~post_args.merge_splits
    /\ post_args.max_length_per_doc = None
    /\ Len(post_calls[2].value) < Len(post_calls[1].value)
    /\ post_calls[2].value # <<>>

\* C14: merge_docuemnt_splits returns, for every source_id of its list, the
\* one index == 0 document of that source when the list holds one, wherever
\* it stands, and all the documents of that source in their order when it
\* holds none; applied to its own result it returns that result.
C14_MergeReducesGroups ==
    \A c \in DOMAIN post_calls :
        LET call == post_calls[c]
        IN call.fn = "merge_docuemnt_splits" =>
              /\ call.raised = ""
              /\ \A x \in Members(call.input) :
                    LET group == FromSource(call.input, x.source_id)
                        merged == FromSource(call.value, x.source_id)
                    IN IF \E d \in Members(group) : d.index = Some(0)
                       THEN /\ Len(merged) = 1
                            /\ merged[1] \in Members(group)
                            /\ merged[1].index = Some(0)
                       ELSE merged = group
              /\ Members(call.value) \subseteq Members(call.input)
              /\ (c = 2 => call.value = call.input)

\* C19: a post_process_documents call with max_length_per_doc given, and
\* without the split merge (the length filter is then the last step to remove
\* documents), returns of the documents left by threshold and deduplication
\* exactly those whose token count does not exceed max_length_per_doc; one
\* whose count equals it is returned.
C19_DropsOnlyLonger ==
    \A c \in DOMAIN post_calls :
        LET call == post_calls[c]
            unique == Dedupe(FilterSearchResults(call.input, call.score_threshold,
                                                 FALSE, FALSE))
        IN (/\ call.fn = "post_process_documents"
            /\ call.raised = ""
            /\ post_args.max_length_per_doc # None
            /\ ~post_args.merge_splits) =>
              \A x \in Members(unique) :
                  x \in Members(call.value)
                      <=> count_approximate_tokens(x.content)
                              <= Get(post_args.max_length_per_doc)

\* ------------------------------------------------ properties of the linker

\* How often the input entity at position src occurs in a list of entities.
Occurrences(list, src) == Cardinality({ i \in DOMAIN list : list[i].src = src })

\* The positions of list that hold the input entity at position src.
Holding(list, src) == { i \in DOMAIN list : list[i].src = src }

\* Every verification response of the run parsed as an integer.
AllResponsesParse ==
    \A i \in DOMAIN calls : calls[i].state = "done" => ParseInt(calls[i].response).ok

\* _link_by_llm got every response and has ended, by returning or by raising.
LinkByLLMEnded == calls # <<>> /\ GatherDone(calls) /\ pc \in {"returned", "raised"}

\* C1: when run returns and every verification response parsed as an integer,
\* every input entity occurs exactly once in linked_entities and
\* unlinked_entities together, with its own type and name, so the two lengths
\* add up to the number of input entities.
C1_Partition ==
    (pc = "returned" /\ AllResponsesParse) =>
        LET linked == result[1].linked_entities
            unlinked == result[1].unlinked_entities
        IN /\ \A src \in DOMAIN entities :
                Occurrences(linked, src) + Occurrences(unlinked, src) = 1
           /\ Len(linked) + Len(unlinked) = Len(entities)
           /\ \A i \in DOMAIN linked :
                /\ linked[i].type = entities[linked[i].src].type
                /\ linked[i].name = entities[linked[i].src].name
           /\ \A i \in DOMAIN unlinked : unlinked[i] = entities[unlinked[i].src]

\* C1's case: a run over two entities returned with one entity linked by the
\* model and one unlinked.
C1_Witness ==
    /\ pc = "returned"
    /\ AllResponsesParse
    /\ Len(entities) = 2
    /\ linked_entities_by_llm # <<>>
    /\ result[1].unlinked_entities # <<>>

\* C2: a response that parses to an integer greater than the number of the
\* entity's candidates puts the entity in unlinked, not in linked, and
\* _link_by_llm returns normally.
C2_OutOfRangeUnlinked ==
    LinkByLLMEnded =>
        \A i \in DOMAIN calls :
            LET parsed == ParseInt(calls[i].response)
                ewc == entity_with_candidates[i]
            IN (parsed.ok /\ parsed.value > Len(ewc.candidates)) =>
                  /\ pc = "returned"
                  /\ Occurrences(unlinked_entities_by_llm, ewc.entity.src) = 1
                  /\ Occurrences(linked_entities_by_llm, ewc.entity.src) = 0

\* C3: when _link_by_llm returns, an entity whose response parses to k with
\* 1 <= k <= len(candidates) is in linked once, not in unlinked, with its own
\* type and name and its k-th candidate as metadata; an entity whose response
\* parses to 0 or less is in unlinked once and not in linked.
C3_IndexSelectsCandidate ==
    (LinkByLLMEnded /\ pc = "returned") =>
        \A i \in DOMAIN calls :
            LET parsed == ParseInt(calls[i].response)
                ewc == entity_with_candidates[i]
                k == parsed.value
                src == ewc.entity.src
            IN /\ (parsed.ok /\ 1 <= k /\ k <= Len(ewc.candidates)) =>
                     /\ Occurrences(linked_entities_by_llm, src) = 1
                     /\ Occurrences(unlinked_entities_by_llm, src) = 0
                     /\ \A j \in Holding(linked_entities_by_llm, src) :
                           linked_entities_by_llm[j] =
                               [type |-> entities[src].type, name |-> entities[src].name,
                                metadata |-> ewc.candidates[k], src |-> src]
               /\ (parsed.ok /\ k <= 0) =>
                     /\ Occurrences(unlinked_entities_by_llm, src) = 1
                     /\ Occurrences(linked_entities_by_llm, src) = 0

\* C3's case: an entity with two candidates was linked to its second one, and
\* another entity answered with a negative number is unlinked.
C3_Witness ==
    /\ LinkByLLMEnded
    /\ pc = "returned"
    /\ \E i \in DOMAIN calls :
          /\ Len(entity_with_candidates[i].candidates) = 2
          /\ calls[i].response = <<"2">>
    /\ \E i \in DOMAIN calls : calls[i].response = <<"-", "1">>

\* The scored candidates of the to-link entity at position q that exceed the
\* configured skip threshold, from the retrieval response being processed.
AboveSkip(q) ==
    SelectSeq(FilterSearchResults(batch_response[q], score_threshold, TRUE, TRUE),
              LAMBDA x : x.score > Get(skip_llm_check_confidence))

\* C4: when a skip threshold is configured and exactly one scored candidate of
\* an entity exceeds it, the processing of the retrieval response links the
\* entity to that candidate and no verification call is issued for it.
C4_ShortcutLinks ==
    [][ (pc = "process" /\ Len(batch_response) = Len(ToLinkEntities(entities))) =>
          \A q \in DOMAIN batch_response :
              LET entity == ToLinkEntities(entities)[q]
              IN (skip_llm_check_confidence # None /\ Len(AboveSkip(q)) = 1) =>
                    /\ \E j \in DOMAIN linked_entities' :
                          linked_entities'[j] =
                              LinkedEntity(entity.type, entity.name,
                                           AboveSkip(q)[1].document, entity.src)
                    /\ \A i \in DOMAIN calls' :
                          calls'[i].prompt.entity_name # entity.name ]_vars

\* C5: an entity whose response does not parse is in neither list, and the
\* other entities of the batch end where their own responses put them:
\* _link_by_llm raises only for a parsed index equal to len(candidates), and
\* when it returns every entity with a parsed response is in exactly one list.
C5_UnparsableDropped ==
    LinkByLLMEnded =>
        /\ \A i \in DOMAIN calls :
              LET src == entity_with_candidates[i].entity.src
              IN ~ParseInt(calls[i].response).ok =>
                    /\ Occurrences(linked_entities_by_llm, src) = 0
                    /\ Occurrences(unlinked_entities_by_llm, src) = 0
                    /\ pc = "returned" =>
                          /\ Occurrences(result[1].linked_entities, src) = 0
                          /\ Occurrences(result[1].unlinked_entities, src) = 0
        /\ pc = "raised" <=>
              \E i \in DOMAIN calls :
                  /\ ParseInt(calls[i].response).ok
                  /\ ParseInt(calls[i].response).value
                        = Len(entity_with_candidates[i].candidates) + 1
        /\ pc = "returned" =>
              \A i \in DOMAIN calls :
                  LET parsed == ParseInt(calls[i].response)
                      ewc == entity_with_candidates[i]
                      src == ewc.entity.src
                  IN parsed.ok =>
                        IF 1 <= parsed.value /\ parsed.value <= Len(ewc.candidates)
                        THEN /\ Occurrences(linked_entities_by_llm, src) = 1
                             /\ Occurrences(unlinked_entities_by_llm, src) = 0
                        ELSE /\ Occurrences(linked_entities_by_llm, src) = 0
                             /\ Occurrences(unlinked_entities_by_llm, src) = 1

\* C5's case: of two verified entities one answered with text that is no
\* integer, the other was linked, and _link_by_llm returned.
C5_Witness ==
    /\ LinkByLLMEnded
    /\ pc = "returned"
    /\ Len(calls) = 2
    /\ \E i \in DOMAIN calls : calls[i].response = <<"x">>
    /\ Len(linked_entities_by_llm) = 1

\* C6: run returns a complete LinkerResponse or raises; once the retrieval
\* call or one verification call has raised, run has raised and there is no
\* result, whatever the shortcut or the other calls resolved.
C6_AllOrNothing ==
    /\ result # <<>> <=> pc = "returned"
    /\ error # "" <=> pc = "raised"
    /\ (error = "RetrievalError" \/ \E i \in DOMAIN calls : calls[i].state = "failed") =>
          (pc = "raised" /\ result = <<>>)
    /\ pc = "returned" =>
          result = << LinkerResponse(linked_entities \o linked_entities_by_llm,
                                     unlinked_entities \o unlinked_entities_by_llm) >>

\* C6's case: run raised after the shortcut linked one entity and one
\* verification call failed.
C6_Witness ==
    /\ pc = "raised"
    /\ linked_entities # <<>>
    /\ \E i \in DOMAIN calls : calls[i].state = "failed"

\* C7: _link_by_llm issues one call per awaiting entity, the i-th call for
\* the i-th entity and its candidates, all at once; while a call is
\* outstanding no entity of the batch is in linked or unlinked and run has no
\* result.
C7_FanOutJoin ==
    /\ Len(calls) = Len(entity_with_candidates)
    /\ \A i \in DOMAIN calls :
          /\ calls[i].prompt.entity_type = entity_with_candidates[i].entity.type
          /\ calls[i].prompt.entity_name = entity_with_candidates[i].entity.name
          /\ calls[i].prompt.normalized_entities = entity_with_candidates[i].candidates
    /\ (\E i \in DOMAIN calls : calls[i].state # "done") =>
          /\ linked_entities_by_llm = <<>>
          /\ unlinked_entities_by_llm = <<>>
          /\ result = <<>>

\* C7's case: two calls are in flight, one has returned and one has not.
C7_Witness ==
    /\ pc = "gathering"
    /\ Len(calls) = 2
    /\ \E i \in DOMAIN calls : calls[i].state = "done"
    /\ \E i \in DOMAIN calls : calls[i].state = "pending"

\* C8: a name that is no string is never a retrieval query, its entity is in
\* unlinked from the split on and in the result's unlinked and not in its
\* linked; with no string name in the input there is no retrieval call and no
\* model call.
C8_NonStringNames ==
    /\ \A c \in DOMAIN retrieval_calls :
          \A q \in DOMAIN retrieval_calls[c].queries : retrieval_calls[c].queries[q].isstr
    /\ \A src \in DOMAIN entities :
          ~entities[src].name.isstr =>
              /\ pc # "idle" => Occurrences(unlinked_entities, src) = 1
              /\ Occurrences(linked_entities, src) = 0
              /\ pc = "returned" =>
                    /\ Occurrences(result[1].unlinked_entities, src) = 1
                    /\ Occurrences(result[1].linked_entities, src) = 0
    /\ (\A src \in DOMAIN entities : ~entities[src].name.isstr) =>
          (retrieval_calls = <<>> /\ calls = <<>>)

\* C8's case: a run over an entity with a string name and one without
\* returned after its retrieval call.
C8_Witness ==
    /\ pc = "returned"
    /\ retrieval_calls # <<>>
    /\ \E src \in DOMAIN entities : ~entities[src].name.isstr
    /\ \E src \in DOMAIN entities : entities[src].name.isstr

\* The retrieval response of the run has been processed entity by entity.
Processed == candidate_docs # <<>>

\* C15: when the processing of the retrieval response leaves an entity at
\* least one final candidate, and no skip threshold is configured or the
\* number of its scored candidates above the skip threshold is not one, the
\* entity awaits verification with exactly its final candidates, a
\* verification call is issued for it, and it is in neither the linked nor
\* the unlinked list.
C15_FallsThroughToVerification ==
    [][ (pc = "process" /\ Len(batch_response) = Len(ToLinkEntities(entities))) =>
          \A q \in DOMAIN batch_response :
              LET entity == ToLinkEntities(entities)[q]
              IN (/\ candidate_docs'[q] # <<>>
                  /\ (skip_llm_check_confidence = None \/ Len(AboveSkip(q)) # 1)) =>
                    /\ \E i \in DOMAIN entity_with_candidates' :
                          /\ entity_with_candidates'[i] =
                                [entity |-> entity, candidates |-> candidate_docs'[q]]
                          /\ calls'[i] = Call(entity_with_candidates'[i])
                    /\ Occurrences(linked_entities', entity.src) = 0
                    /\ Occurrences(unlinked_entities', entity.src) = 0 ]_vars

C15_Witness ==
    /\ pc = "gathering"
    /\ skip_llm_check_confidence = Some(2)
    /\ \E q \in DOMAIN candidate_docs :
          /\ Len(candidate_docs[q]) >= 2
          /\ \E i \in DOMAIN entity_with_candidates :
                /\ entity_with_candidates[i].entity = ToLinkEntities(entities)[q]
                /\ entity_with_candidates[i].candidates = candidate_docs[q]

\* C16: once the response is processed, an entity whose final candidate list
\* is empty is in the unlinked list, awaits no verification, has no
\* verification call and is not linked by the shortcut; every other entity
\* of the batch awaits verification or is linked by the shortcut.
C16_NoCandidatesUnlinked ==
    Processed =>
        \A q \in DOMAIN candidate_docs :
            LET src == ToLinkEntities(entities)[q].src
                awaiting == Occurrences(Map(entity_with_candidates, LAMBDA x : x.entity), src)
            IN IF candidate_docs[q] = <<>>
               THEN /\ Occurrences(unlinked_entities, src) = 1
                    /\ awaiting = 0
                    /\ Len(calls) = Len(entity_with_candidates)
                    /\ Occurrences(linked_entities, src) = 0
               ELSE /\ awaiting + Occurrences(linked_entities, src) = 1
                    /\ Occurrences(unlinked_entities, src) = 0

C16_Witness ==
    /\ Processed
    /\ \E q, r \in DOMAIN candidate_docs :
          /\ candidate_docs[q] = <<>>
          /\ candidate_docs[r] # <<>>
          /\ Occurrences(unlinked_entities, ToLinkEntities(entities)[q].src) = 1

\* C20: every entity the confidence shortcut linked has as metadata a
\* document of its final candidate list.
C20_ShortcutLinksFinalCandidate ==
    \A q \in DOMAIN candidate_docs :
        \A j \in Holding(linked_entities, ToLinkEntities(entities)[q].src) :
            linked_entities[j].metadata \in Members(candidate_docs[q])

\* ------------------------------------ properties of the completion order

\* The verification loop with the response of the i-th dispatched call
\* applied to the i-th awaiting entity and its candidate list.
DispatchOrderVerdict ==
    VerifyLoop(entity_with_candidates, [i \in DOMAIN calls |-> calls[i].response], 1,
               Verdict(FALSE, <<>>, <<>>))

\* The entities of list stand in the order of the input list.
InInputOrder(list) == \A a, b \in DOMAIN list : a < b => list[a].src < list[b].src

\* C21: the i-th dispatched call carries the prompt of the i-th awaiting
\* entity, and once every call has returned, in whatever order, run ends as the
\* verification loop does when the response of the i-th call is applied to the
\* i-th awaiting entity and its candidates: the entities the loop links and
\* leaves unlinked follow, in input order, those resolved before the dispatch.
C21_CompletionOrderIrrelevant ==
    /\ calls # <<>> =>
          /\ Len(calls) = Len(entity_with_candidates)
          /\ \A i \in DOMAIN calls : calls[i].prompt = Prompt(entity_with_candidates[i])
    /\ LinkByLLMEnded =>
          IF DispatchOrderVerdict.raised
          THEN pc = "raised" /\ error = "IndexError"
          ELSE /\ pc = "returned"
               /\ linked_entities_by_llm = DispatchOrderVerdict.linked
               /\ unlinked_entities_by_llm = DispatchOrderVerdict.unlinked
               /\ result[1].linked_entities = linked_entities \o DispatchOrderVerdict.linked
               /\ result[1].unlinked_entities =
                     unlinked_entities \o DispatchOrderVerdict.unlinked
               /\ InInputOrder(linked_entities_by_llm)
               /\ InInputOrder(unlinked_entities_by_llm)

\* C21's case: the second call returned before the first, with another
\* response, and run returned with both entities linked by the model.
C21_Witness ==
    /\ pc = "returned"
    /\ completion_order = << 2, 1 >>
    /\ calls[1].response = << "2" >>
    /\ calls[2].response = << "1" >>
    /\ Len(linked_entities_by_llm) = 2

\* ------------------------------------------ properties of the retriever

\* C23: retrieve leaves params.filters and the retriever's filters as the
\* first call found them, every call passes the filter list of the first to
\* the vector search, and a call that returns returns at most top_k documents.
C23_RetrieveLeavesFilters ==
    retrieve_calls # <<>> =>
        /\ params.filters = retrieve_calls[1].params_filters
        /\ retriever.filters = retrieve_calls[1].self_filters
        /\ \A c \in DOMAIN retrieve_calls :
              /\ retrieve_calls[c].filters = retrieve_calls[1].filters
              /\ Len(retrieve_calls[c].filters) = Len(retrieve_calls[1].filters)
              /\ retrieve_calls[c].raised = "" => Len(retrieve_calls[c].value) <= params.top_k

====
